---- MODULE Spec2Model ----
(***************************************************************************)
(* StimaSense: the KPLC planned-outage fetcher                             *)
(* (services/kplc/scraper/fetch_kplc_planned_outages.py).                  *)
(*                                                                         *)
(* A Python str is modelled as a sequence of one-character strings, so     *)
(* that the regular expressions, normalize_space, splitlines and the       *)
(* [:120] truncation are computed character by character as the code      *)
(* computes them.                                                          *)
(***************************************************************************)
EXTENDS Integers, Sequences, FiniteSets, TLC

(***************************************************************************)
(* Characters and character classes of the regular expressions.            *)
(***************************************************************************)
UpperSeq == <<"A","B","C","D","E","F","G","H","I","J","K","L","M",
              "N","O","P","Q","R","S","T","U","V","W","X","Y","Z">>
LowerSeq == <<"a","b","c","d","e","f","g","h","i","j","k","l","m",
              "n","o","p","q","r","s","t","u","v","w","x","y","z">>
Upper == {UpperSeq[n] : n \in 1..26}
Lower == {LowerSeq[n] : n \in 1..26}
\* [A-Za-z], which is also [A-Z] under (?i)
Letter == Upper \cup Lower
\* \d
Digit == {"0","1","2","3","4","5","6","7","8","9"}
\* \s
WS == {" ", "\t", "\n", "\r", "\f"}
\* [A-Z\s] under (?i)
LetterOrWs == Letter \cup WS
\* [./-]
DateSep == {".", "/", "-"}
\* [0-9.:\sAPMapm-] and the en dash, written "ndash" here
TimeClass == Digit \cup WS \cup {".", ":", "A", "P", "M", "a", "p", "m", "-", "ndash"}

\* (?i): the lower-case form of a character
ToLower(c) ==
    IF c \in Upper THEN LowerSeq[CHOOSE n \in 1..26 : UpperSeq[n] = c] ELSE c

\* the literal lit (given in lower case) occurs in s at position p, ignoring case
MatchLit(s, p, lit) ==
    /\ p >= 1
    /\ p + Len(lit) - 1 <= Len(s)
    /\ \A n \in 1..Len(lit) : ToLower(s[p + n - 1]) = lit[n]

\* the position after the longest run of characters of class cls that starts at p
RunEnd(s, p, cls) ==
    LET N == {q \in p..Len(s) : s[q] \notin cls} IN
    IF N # {} THEN CHOOSE q \in N : \A y \in N : q <= y
    ELSE IF p > Len(s) THEN p ELSE Len(s) + 1

\* the positions of s, in order
Positions(s) == [p \in 1..Len(s) |-> p]

\* str.strip()
RECURSIVE lstrip(_)
lstrip(s) == IF s # <<>> /\ Head(s) \in WS THEN lstrip(Tail(s)) ELSE s
RECURSIVE rstrip(_)
rstrip(s) ==
    IF s # <<>> /\ s[Len(s)] \in WS THEN rstrip(SubSeq(s, 1, Len(s) - 1)) ELSE s
strip(s) == lstrip(rstrip(s))

\* re.sub(r"\s+", " ", s): every maximal whitespace run becomes one space
CollapseWs(s) ==
    LET first(p) == ~(s[p] \in WS /\ p > 1 /\ s[p - 1] \in WS)
        kept == SelectSeq(Positions(s), first)
    IN  SubSeq([n \in 1..Len(kept) |->
                    IF s[kept[n]] \in WS THEN " " ELSE s[kept[n]]], 1, Len(kept))

normalize_space(s) == strip(CollapseWs(s))

\* str.splitlines(): lines end at \n, \r or \r\n; no line follows a final break
splitlines(s) ==
    LET brk(p) == /\ s[p] \in {"\n", "\r"}
                  /\ ~(s[p] = "\n" /\ p > 1 /\ s[p - 1] = "\r")
        breaks == SelectSeq(Positions(s), brk)
        \* the position after the break that starts at p
        after(p) == IF s[p] = "\r" /\ p < Len(s) /\ s[p + 1] = "\n" THEN p + 2 ELSE p + 1
        from(n) == IF n = 1 THEN 1 ELSE after(breaks[n - 1])
        upto(n) == IF n <= Len(breaks) THEN breaks[n] - 1 ELSE Len(s)
        count == IF breaks # <<>> /\ after(breaks[Len(breaks)]) > Len(s)
                 THEN Len(breaks)
                 ELSE IF s = <<>> THEN 0 ELSE Len(breaks) + 1
    IN  SubSeq([n \in 1..count |-> SubSeq(s, from(n), upto(n))], 1, count)

\* the result of a failed search, and of a search whose group captured g
NoMatch == [ok |-> FALSE, g |-> <<>>]
Matched(g) == [ok |-> TRUE, g |-> g]

Max(S) == CHOOSE x \in S : \A y \in S : y <= x
Min(S) == CHOOSE x \in S : \A y \in S : x <= y

(***************************************************************************)
(* The four patterns of parse_pdf_for_outages, each as the search Python's *)
(* re performs: the leftmost start, greedy quantifiers, backtracking in    *)
(* the order of the alternatives.  A search returns the captured group.    *)
(* The patterns are applied to normalized lines, which hold no line break. *)
(***************************************************************************)

\* area_re = (?i)^area\s*:\s*(.+)      (group 1)
area_re_search(ln) ==
    IF ~MatchLit(ln, 1, <<"a","r","e","a">>) THEN NoMatch
    ELSE LET j == RunEnd(ln, 5, WS) IN
         IF ~(j <= Len(ln) /\ ln[j] = ":") THEN NoMatch
         ELSE LET k0 == j + 1
                  k  == RunEnd(ln, k0, WS)
              IN  IF k <= Len(ln) THEN Matched(SubSeq(ln, k, Len(ln)))
                  \* \s* gives one whitespace character back to (.+)
                  ELSE IF k > k0 THEN Matched(SubSeq(ln, k - 1, Len(ln)))
                  ELSE NoMatch

\* the position after \d{1,2}[./-] read at p, or 0
Digits12Sep(s, p) ==
    LET n == RunEnd(s, p, Digit) - p IN
    IF n >= 2 THEN (IF p + 2 <= Len(s) /\ s[p + 2] \in DateSep THEN p + 3 ELSE 0)
    ELSE IF n = 1 THEN (IF p + 1 <= Len(s) /\ s[p + 1] \in DateSep THEN p + 2 ELSE 0)
    ELSE 0

\* date_re tried at start position p
DateAt(s, p) ==
    IF ~MatchLit(s, p, <<"d","a","t","e">>) THEN NoMatch
    ELSE LET j == RunEnd(s, p + 4, WS) IN
         IF ~(j <= Len(s) /\ s[j] = ":") THEN NoMatch
         ELSE LET k == RunEnd(s, j + 1, WS)
                  a == RunEnd(s, k, Letter)
                  b == RunEnd(s, a, WS)
                  c == Digits12Sep(s, b)
                  d == IF c = 0 THEN 0 ELSE Digits12Sep(s, c)
              IN  IF /\ a > k
                     /\ d # 0
                     /\ \A n \in 0..3 : d + n <= Len(s) /\ s[d + n] \in Digit
                  THEN Matched(SubSeq(s, k, d + 3))
                  ELSE NoMatch

\* date_re = (?i)date\s*:\s*([A-Za-z]+\s*\d{1,2}[./-]\d{1,2}[./-]\d{4})   (group 1)
date_re_search(ln) ==
    LET P == {p \in 1..Len(ln) : DateAt(ln, p).ok} IN
    IF P = {} THEN NoMatch ELSE DateAt(ln, Min(P))

\* time_re tried at start position p
TimeAt(s, p) ==
    IF ~MatchLit(s, p, <<"t","i","m","e">>) THEN NoMatch
    ELSE LET j == RunEnd(s, p + 4, WS) IN
         IF ~(j <= Len(s) /\ s[j] = ":") THEN NoMatch
         ELSE LET k0 == j + 1
                  k  == RunEnd(s, k0, WS)
              IN  IF k <= Len(s) /\ s[k] \in TimeClass
                  THEN Matched(SubSeq(s, k, RunEnd(s, k, TimeClass) - 1))
                  \* \s* gives one whitespace character back to the class
                  ELSE IF k > k0 THEN Matched(<<s[k - 1]>>)
                  ELSE NoMatch

\* time_re = (?i)time\s*:\s*([0-9.:\sAPMapm-]+)      (group 1)
time_re_search(ln) ==
    LET P == {p \in 1..Len(ln) : TimeAt(ln, p).ok} IN
    IF P = {} THEN NoMatch ELSE TimeAt(ln, Min(P))

\* group 2 of region_re read at w: [A-Z\s]+REGION, else PARTS OF [A-Z\s]+ COUNTY
RegionGroupAt(s, w) ==
    LET r  == RunEnd(s, w, LetterOrWs)
        QA == {q \in (w + 1)..(r - 6) : MatchLit(s, q, <<"r","e","g","i","o","n">>)}
        QB == IF MatchLit(s, w, <<"p","a","r","t","s"," ","o","f"," ">>)
              THEN LET r2 == RunEnd(s, w + 9, LetterOrWs) IN
                   {q \in (w + 10)..(r2 - 7) :
                        MatchLit(s, q, <<" ","c","o","u","n","t","y">>)}
              ELSE {}
    IN  IF QA # {} THEN Matched(SubSeq(s, w, Max(QA) + 5))
        ELSE IF QB # {} THEN Matched(SubSeq(s, w, Max(QB) + 6))
        ELSE NoMatch

\* region_re tried at start position p: "region\s*:\s*" before the group, else ^
RegionAt(s, p) ==
    LET j  == RunEnd(s, p + 6, WS)
        k0 == j + 1
        k  == RunEnd(s, k0, WS)
        W  == IF /\ MatchLit(s, p, <<"r","e","g","i","o","n">>)
                 /\ j <= Len(s)
                 /\ s[j] = ":"
              THEN {w \in k0..k : RegionGroupAt(s, w).ok}
              ELSE {}
    IN  IF W # {} THEN RegionGroupAt(s, Max(W))
        ELSE IF p = 1 THEN RegionGroupAt(s, 1)
        ELSE NoMatch

\* region_re = (?i)(region\s*:\s*|^)([A-Z\s]+REGION|PARTS OF [A-Z\s]+ COUNTY)   (group 2)
region_re_search(ln) ==
    LET P == {p \in 1..Len(ln) : RegionAt(ln, p).ok} IN
    IF P = {} THEN NoMatch ELSE RegionAt(ln, Min(P))

(***************************************************************************)
(* OutageNotice records and parse_pdf_for_outages.                         *)
(***************************************************************************)

\* hash_id: the first 16 hex digits of sha1(text), taken to be free of collisions
hash_id(t) == [sha1 |-> t]

\* the fallback record's region is lines[0][:RegionCap]
RegionCap == 120

\* s[:n]
Truncate(s, n) == SubSeq(s, 1, IF Len(s) < n THEN Len(s) ELSE n)

\* the area of a fallback record
PlannedMaintenance ==
    <<"P","l","a","n","n","e","d"," ","m","a","i","n","t","e","n","a","n","c","e">>

\* f"{pdf_url}|{region}|{area}|{start}|{end}"
FlushKey(u, r, a, st, en) ==
    u \o <<"|">> \o r \o <<"|">> \o a \o <<"|">> \o st \o <<"|">> \o en

\* the record flush() appends
FlushedRecord(ps, u, now) ==
    [id        |-> hash_id(FlushKey(u, ps.region, ps.area, ps.start, ps.end)),
     region    |-> ps.region,
     area      |-> ps.area,
     startTime |-> ps.start,
     endTime   |-> ps.end,
     sourceUrl |-> u,
     createdAt |-> now]

\* mutant of flush: the test for a non-empty field is missing
flush_unguarded(ps, u, now) ==
    [outages |-> Append(ps.outages, FlushedRecord(ps, u, now)),
     region |-> <<>>, area |-> <<>>, start |-> <<>>, end |-> <<>>]

\* mutant of flush: only the region is reset after a record is appended
flush_leaky(ps, u, now) ==
    IF ps.area # <<>> \/ ps.start # <<>> \/ ps.end # <<>> \/ ps.region # <<>>
    THEN [ps EXCEPT !.outages = Append(ps.outages, FlushedRecord(ps, u, now)),
                    !.region = <<>>]
    ELSE ps

\* flush(): ps holds the result list and the four working fields
flush(ps, u, now) ==
    IF ps.area # <<>> \/ ps.start # <<>> \/ ps.end # <<>> \/ ps.region # <<>>
    THEN [outages |-> Append(ps.outages, FlushedRecord(ps, u, now)),
          region |-> <<>>, area |-> <<>>, start |-> <<>>, end |-> <<>>]
    ELSE ps

\* mutant of scan_line: an area line closes the in-progress record too
scan_line_area_flushes(ps, ln, u, now) ==
    IF ln = <<>> THEN ps
    ELSE IF region_re_search(ln).ok
         THEN [flush(ps, u, now) EXCEPT !.region = strip(region_re_search(ln).g)]
    ELSE IF area_re_search(ln).ok
         THEN [flush(ps, u, now) EXCEPT !.area = strip(area_re_search(ln).g)]
    ELSE IF date_re_search(ln).ok
         THEN [ps EXCEPT !.start = strip(date_re_search(ln).g)]
    ELSE IF time_re_search(ln).ok
         THEN [ps EXCEPT !.end = strip(time_re_search(ln).g)]
    ELSE ps

\* mutant of scan_line: a region line does not close the in-progress record
scan_line_no_flush(ps, ln, u, now) ==
    IF ln = <<>> THEN ps
    ELSE IF region_re_search(ln).ok
         THEN [ps EXCEPT !.region = strip(region_re_search(ln).g)]
    ELSE IF area_re_search(ln).ok
         THEN [ps EXCEPT !.area = strip(area_re_search(ln).g)]
    ELSE IF date_re_search(ln).ok
         THEN [ps EXCEPT !.start = strip(date_re_search(ln).g)]
    ELSE IF time_re_search(ln).ok
         THEN [ps EXCEPT !.end = strip(time_re_search(ln).g)]
    ELSE ps

\* mutant of scan_line: the "continue" statements are missing, so every
\* pattern that matches is applied
scan_line_fallthrough(ps, ln, u, now) ==
    IF ln = <<>> THEN ps
    ELSE LET p1 == IF region_re_search(ln).ok
                   THEN [flush(ps, u, now) EXCEPT
                            !.region = strip(region_re_search(ln).g)]
                   ELSE ps
             p2 == IF area_re_search(ln).ok
                   THEN [p1 EXCEPT !.area = strip(area_re_search(ln).g)]
                   ELSE p1
             p3 == IF date_re_search(ln).ok
                   THEN [p2 EXCEPT !.start = strip(date_re_search(ln).g)]
                   ELSE p2
         IN  IF time_re_search(ln).ok
             THEN [p3 EXCEPT !.end = strip(time_re_search(ln).g)]
             ELSE p3

\* the body of "for ln in lines", applied to one line
scan_line(ps, ln, u, now) ==
    IF ln = <<>> THEN ps
    ELSE IF region_re_search(ln).ok
         THEN [flush(ps, u, now) EXCEPT !.region = strip(region_re_search(ln).g)]
    ELSE IF area_re_search(ln).ok
         THEN [ps EXCEPT !.area = strip(area_re_search(ln).g)]
    ELSE IF date_re_search(ln).ok
         THEN [ps EXCEPT !.start = strip(date_re_search(ln).g)]
    ELSE IF time_re_search(ln).ok
         THEN [ps EXCEPT !.end = strip(time_re_search(ln).g)]
    ELSE ps

\* mutant of finish: the fallback region is the whole first line
finish_untruncated(ps, lns, u, now) ==
    LET out == flush(ps, u, now).outages IN
    IF out = <<>> /\ lns # <<>>
    THEN <<[id        |-> hash_id(u),
            region    |-> lns[1],
            area      |-> PlannedMaintenance,
            startTime |-> <<>>,
            endTime   |-> <<>>,
            sourceUrl |-> u,
            createdAt |-> now]>>
    ELSE out

\* mutant of finish: the flush() after the loop is missing
finish_no_last_flush(ps, lns, u, now) ==
    LET out == ps.outages IN
    IF out = <<>> /\ lns # <<>>
    THEN <<[id        |-> hash_id(u),
            region    |-> Truncate(lns[1], RegionCap),
            area      |-> PlannedMaintenance,
            startTime |-> <<>>,
            endTime   |-> <<>>,
            sourceUrl |-> u,
            createdAt |-> now]>>
    ELSE out

\* the final flush() and the fallback entry; the value is the list returned
finish(ps, lns, u, now) ==
    LET out == flush(ps, u, now).outages IN
    IF out = <<>> /\ lns # <<>>
    THEN <<[id        |-> hash_id(u),
            region    |-> Truncate(lns[1], RegionCap),
            area      |-> PlannedMaintenance,
            startTime |-> <<>>,
            endTime   |-> <<>>,
            sourceUrl |-> u,
            createdAt |-> now]>>
    ELSE out

\* lines = [normalize_space(l) for l in text.splitlines()]
NormLines(t) ==
    LET raw == splitlines(t) IN
    SubSeq([n \in 1..Len(raw) |-> normalize_space(raw[n])], 1, Len(raw))

EmptyScan == [outages |-> <<>>, region |-> <<>>, area |-> <<>>,
              start |-> <<>>, end |-> <<>>]

RECURSIVE ScanFrom(_, _, _, _, _)
ScanFrom(ps, lns, n, u, now) ==
    IF n > Len(lns) THEN ps
    ELSE ScanFrom(scan_line(ps, lns[n], u, now), lns, n + 1, u, now)

\* parse_pdf_for_outages(text, pdf_url), with the clock reading now
parse_pdf_for_outages(t, u, now) ==
    finish(ScanFrom(EmptyScan, NormLines(t), 1, u, now), NormLines(t), u, now)

(***************************************************************************)
(* merge_and_sort.                                                         *)
(***************************************************************************)

\* the characters of a timestamp, in code point order
CharTable == <<"-","0","1","2","3","4","5","6","7","8","9",":","T","Z">>
CodePoint(c) == CHOOSE n \in 1..Len(CharTable) : CharTable[n] = c

\* a < b for Python strings: at the first position where they differ the
\* smaller code point decides, and a proper prefix is the smaller string
StrLess(a, b) ==
    LET D == {n \in 1..(IF Len(a) < Len(b) THEN Len(a) ELSE Len(b)) : a[n] # b[n]} IN
    IF D = {} THEN Len(a) < Len(b)
    ELSE CodePoint(a[Min(D)]) < CodePoint(b[Min(D)])

\* mutant of DictPut: the first record of an id is kept
DictPut_first(d, it) ==
    IF \E n \in 1..Len(d) : d[n].id = it.id THEN d ELSE Append(d, it)

\* dedup[it["id"]] = it, the dict being the list of its values in insertion
\* order: a known key keeps its place and takes the new value
DictPut(d, it) ==
    IF \E n \in 1..Len(d) : d[n].id = it.id
    THEN [d EXCEPT ![CHOOSE n \in 1..Len(d) : d[n].id = it.id] = it]
    ELSE Append(d, it)

\* the place x takes in a list sorted by createdAt, descending: behind every
\* record whose createdAt is not smaller
InsertDesc(srt, x) ==
    LET S == {n \in 1..Len(srt) : StrLess(srt[n].createdAt, x.createdAt)}
        at == IF S = {} THEN Len(srt) + 1 ELSE Min(S)
    IN  SubSeq(srt, 1, at - 1) \o <<x>> \o SubSeq(srt, at, Len(srt))

\* the place x takes in a list sorted by createdAt, ascending
InsertAsc(srt, x) ==
    LET S == {n \in 1..Len(srt) : StrLess(x.createdAt, srt[n].createdAt)}
        at == IF S = {} THEN Len(srt) + 1 ELSE Min(S)
    IN  SubSeq(srt, 1, at - 1) \o <<x>> \o SubSeq(srt, at, Len(srt))

RECURSIVE SortDescInto(_, _)
SortDescInto(srt, rest) ==
    IF rest = <<>> THEN srt ELSE SortDescInto(InsertDesc(srt, Head(rest)), Tail(rest))

RECURSIVE SortAscInto(_, _)
SortAscInto(srt, rest) ==
    IF rest = <<>> THEN srt ELSE SortAscInto(InsertAsc(srt, Head(rest)), Tail(rest))

Reverse(q) == [n \in 1..Len(q) |-> q[Len(q) + 1 - n]]

\* mutant of sorted_desc: sorted(...) ascending, then reversed
sorted_then_reversed(d) ==
    LET asc == SortAscInto(<<>>, d) IN SubSeq(Reverse(asc), 1, Len(asc))

\* sorted(dedup.values(), key=createdAt, reverse=True): a stable sort, which
\* with reverse=True still keeps records of equal key in their given order
sorted_desc(d) == SortDescInto(<<>>, d)

RECURSIVE DedupFrom(_, _)
DedupFrom(d, its) ==
    IF its = <<>> THEN d ELSE DedupFrom(DictPut(d, Head(its)), Tail(its))

merge_and_sort(its) == sorted_desc(DedupFrom(<<>>, its))

(***************************************************************************)
(* The page strategies of main.  The HTML of a page is kept as what the    *)
(* HTML parser makes of it: the href values of its <a> elements and its    *)
(* text nodes, in document order, and whether the parser rejects the       *)
(* markup.  The empty string is the page without elements.                 *)
(***************************************************************************)
EmptyPage == [malformed |-> FALSE, hrefs |-> <<>>, texts |-> <<>>]

\* DEFAULT_SOURCE_URL, shortened
DEFAULT_SOURCE_URL == <<"h","t","t","p",":","/","/","k","/","c","#","p">>

\* s.startswith(lit), s.endswith(lit)
StartsWith(s, lit) == Len(s) >= Len(lit) /\ SubSeq(s, 1, Len(lit)) = lit
EndsWith(s, lit) ==
    Len(s) >= Len(lit) /\ SubSeq(s, Len(s) - Len(lit) + 1, Len(s)) = lit

\* s.lower()
LowerStr(s) == SubSeq([n \in 1..Len(s) |-> ToLower(s[n])], 1, Len(s))

\* the first occurrences of the elements of q, in order
Uniq(q) ==
    SelectSeq(Positions(q), LAMBDA n : \A m \in 1..(n - 1) : q[m] # q[n])

\* re.match(r"^(https?://[^/]+)", base_url): group 1, or "" without a match
HostOf(base) ==
    LET p == IF StartsWith(base, <<"h","t","t","p","s",":","/","/">>) THEN 9
             ELSE IF StartsWith(base, <<"h","t","t","p",":","/","/">>) THEN 8
             ELSE 0
        S == {q \in p..Len(base) : base[q] = "/"}
        e == IF S = {} THEN Len(base) + 1 ELSE Min(S)
    IN  IF p = 0 \/ e = p THEN <<>> ELSE SubSeq(base, 1, e - 1)

\* base_url.rsplit("/", 1)[0]
RSplitHead(base) ==
    LET S == {q \in 1..Len(base) : base[q] = "/"} IN
    IF S = {} THEN base ELSE SubSeq(base, 1, Max(S) - 1)

\* the absolute URL appended for the href of a PDF link
ResolveHref(href, base) ==
    IF StartsWith(href, <<"h","t","t","p">>) THEN href
    ELSE IF StartsWith(href, <<"/">>) THEN HostOf(base) \o href
    ELSE RSplitHead(base) \o <<"/">> \o href

\* extract_pdf_links_bs4(html, base_url) when the markup parses; bs4 tells
\* whether BeautifulSoup can be imported
extract_pdf_links_bs4(html, base, bs4) ==
    IF ~bs4 THEN <<>>
    ELSE LET hs   == SubSeq([n \in 1..Len(html.hrefs) |-> strip(html.hrefs[n])],
                            1, Len(html.hrefs))
             pdf  == SelectSeq(Positions(hs),
                        LAMBDA n : EndsWith(LowerStr(hs[n]), <<".","p","d","f">>))
             pdfs == SubSeq([n \in 1..Len(pdf) |-> ResolveHref(hs[pdf[n]], base)],
                            1, Len(pdf))
             keep == Uniq(pdfs)
         IN  SubSeq([n \in 1..Len(keep) |-> pdfs[keep[n]]], 1, Len(keep))

\* the record of the list and regex strategies for the text t
CoarseEntry(t, now) ==
    [id        |-> hash_id(t),
     region    |-> Truncate(t, RegionCap),
     area      |-> PlannedMaintenance,
     startTime |-> <<>>,
     endTime   |-> <<>>,
     sourceUrl |-> DEFAULT_SOURCE_URL,
     createdAt |-> now]

\* at most this many texts become entries in the list and the regex strategy
EntryCap == 50
\* a text node shorter than this is no list entry
MinTextLen == 12

\* k.lower() in t.lower()
Contains(t, k) == \E p \in 1..Len(t) : MatchLit(t, p, k)

Keywords ==
    {<<"p","o","w","e","r"," ","m","a","i","n","t","e","n","a","n","c","e"," ","n","o","t","i","c","e">>,
     <<"p","l","a","n","n","e","d">>,
     <<"i","n","t","e","r","r","u","p","t","i","o","n">>,
     <<"o","u","t","a","g","e">>}

\* parse_list_section_bs4(html) when the markup parses
parse_list_section_bs4(html, bs4, now) ==
    IF ~bs4 THEN <<>>
    ELSE LET ts   == SubSeq([n \in 1..Len(html.texts) |->
                                normalize_space(html.texts[n])], 1, Len(html.texts))
             hit  == SelectSeq(Positions(ts),
                        LAMBDA n : /\ \E k \in Keywords : Contains(ts[n], k)
                                   /\ Len(ts[n]) > MinTextLen)
             txts == SubSeq([n \in 1..Len(hit) |-> ts[hit[n]]], 1, Len(hit))
             keep == Truncate(Uniq(txts), EntryCap)
         IN  SubSeq([n \in 1..Len(keep) |-> CoarseEntry(txts[keep[n]], now)],
                    1, Len(keep))

\* power\s+maintenance\s+notice read at p: the position after it, or 0
NoticeAt(t, p) ==
    LET a == p + 5
        b == RunEnd(t, a, WS)
        c == b + 11
        d == RunEnd(t, c, WS)
    IN  IF /\ MatchLit(t, p, <<"p","o","w","e","r">>)
           /\ b > a
           /\ MatchLit(t, b, <<"m","a","i","n","t","e","n","a","n","c","e">>)
           /\ d > c
           /\ MatchLit(t, d, <<"n","o","t","i","c","e">>)
        THEN d + 6
        ELSE 0

\* the position after the match that starts at p: [^<\n\r]* runs to the end
\* of the line (a text node holds no "<")
NoticeEnd(t, p) ==
    LET S == {q \in NoticeAt(t, p)..Len(t) : t[q] \in {"\n", "\r"}} IN
    IF S = {} THEN Len(t) + 1 ELSE Min(S)

\* findall takes the match at p: no match taken before p reaches over p
RECURSIVE Taken(_, _)
Taken(t, p) ==
    /\ NoticeAt(t, p) # 0
    /\ \A q \in 1..(p - 1) : Taken(t, q) => NoticeEnd(t, q) <= p

\* pattern.findall(t), in order
NoticeMatches(t) ==
    LET at == SelectSeq(Positions(t), LAMBDA p : Taken(t, p)) IN
    SubSeq([n \in 1..Len(at) |-> SubSeq(t, at[n], NoticeEnd(t, at[n]) - 1)],
           1, Len(at))

RECURSIVE AllMatches(_)
AllMatches(txts) ==
    IF txts = <<>> THEN <<>>
    ELSE NoticeMatches(Head(txts)) \o AllMatches(Tail(txts))

\* parse_with_regex(html): the matches lie in the text between the tags
parse_with_regex(html, now) ==
    LET ms == Truncate(AllMatches(html.texts), EntryCap) IN
    SubSeq([n \in 1..Len(ms) |-> CoarseEntry(normalize_space(ms[n]), now)],
           1, Len(ms))

\* at most this many PDF links are fetched
PdfCap == 15

\* mutant of pdf_batch: the cap on the requests is missing
pdf_batch_uncapped(links) == links

\* pdf_links[:15]
pdf_batch(links) == Truncate(links, PdfCap)

\* mutant of json_dumps: nothing is written for an empty list
json_dumps_blank(its) ==
    IF its = <<>> THEN <<>>
    ELSE <<[t |-> "["]>> \o [n \in 1..Len(its) |-> [t |-> "object", v |-> its[n]]]
                        \o <<[t |-> "]"]>>

\* json.dumps(items, ensure_ascii=False, indent=2) as its tokens: the
\* brackets and, between them, the objects in list order
json_dumps(its) ==
    <<[t |-> "["]>> \o [n \in 1..Len(its) |-> [t |-> "object", v |-> its[n]]]
                    \o <<[t |-> "]"]>>

(***************************************************************************)
(* Sample lines of notice text.                                            *)
(***************************************************************************)
\* an empty line
Line_blank == <<>>
\* no marker; leading and doubled whitespace
Line_plain == <<" ","W","o","r","k","s"," "," ","n","o","t","i","c","e">>
\* region marker at the start of the line
Line_region == <<"N","A","I","R","O","B","I"," ","R","E","G","I","O","N">>
\* region marker after the keyword
Line_regionkw == <<"R","e","g","i","o","n",":"," "," ","C","O","A","S","T"," ","R","E","G","I","O","N">>
\* area marker
Line_area == <<"A","r","e","a",":"," ","K","a","r","e","n">>
\* date marker
Line_date == <<"D","a","t","e",":"," ","S","u","n"," ","1",".","2",".","2","0","2","4">>
\* time marker
Line_time == <<"T","i","m","e",":"," ","9"," ","-"," ","5">>
\* time marker whose group is one blank
Line_timeTBA == <<"T","i","m","e",":"," ","T","B","A">>
\* date and time markers
Line_datetime == <<"D","A","T","E",":"," ","M","o","n"," ","1","2","/","3","/","2","0","2","4"," ","T","I","M","E",":"," ","8",".","3","0">>
\* region and date markers
Line_regiondate == <<"W","E","S","T"," ","R","E","G","I","O","N"," ","D","a","t","e",":"," ","T","u","e"," ","4","-","5","-","2","0","2","4">>
\* area and time markers
Line_areatime == <<"A","r","e","a",":"," ","N","g","o","n","g"," ","T","i","m","e",":"," ","1","0">>
\* area and region markers
Line_arearegion == <<"A","r","e","a",":"," ","R","e","g","i","o","n",":"," ","R","I","F","T"," ","R","E","G","I","O","N">>
\* region marker, second alternative
Line_county == <<"P","A","R","T","S"," ","O","F"," ","K","I","A","M","B","U"," ","C","O","U","N","T","Y">>

Repeat(c, n) == SubSeq([m \in 1..n |-> c], 1, n)
\* no marker; one character longer than RegionCap
Line_long == Repeat("x", RegionCap + 1)

\* "\n".join(ls)
RECURSIVE JoinLines(_)
JoinLines(ls) ==
    IF ls = <<>> THEN <<>>
    ELSE IF Len(ls) = 1 THEN ls[1]
    ELSE ls[1] \o <<"\n">> \o JoinLines(Tail(ls))

SeqsUpTo(S, n) == UNION {[1..m -> S] : m \in 0..n}

\* the lines that short texts are made of
LinePool ==
    {Line_blank, Line_plain, Line_region, Line_regionkw, Line_area, Line_date,
     Line_time, Line_timeTBA, Line_datetime, Line_regiondate, Line_areatime,
     Line_arearegion, Line_county, Line_long}

MaxLines == 2
ShortTexts == {JoinLines(ls) : ls \in SeqsUpTo(LinePool, MaxLines)}

\* notices: blocks of a region line followed by area, date and time lines
RegionLines == {Line_region, Line_regionkw}
BlockBodies ==
    {<<Line_area, Line_date, Line_time>>,
     <<Line_time, Line_plain, Line_date, Line_area>>,
     <<Line_area, Line_date, Line_timeTBA, Line_time>>}
Blocks == {<<r>> \o b : r \in RegionLines, b \in BlockBodies}
MaxBlocks == 2
RECURSIVE Flatten(_)
Flatten(bs) == IF bs = <<>> THEN <<>> ELSE Head(bs) \o Flatten(Tail(bs))
NoticeTexts == {JoinLines(Flatten(bs)) : bs \in SeqsUpTo(Blocks, MaxBlocks)}

\* texts that end in a line break, use \r\n, or hold only whitespace
BreakTexts ==
    {<<"\n">>, <<" ">>, <<"\r","\n">>, <<"\n">> \o Line_area,
     Line_plain \o <<"\r","\n">> \o Line_region \o <<"\n">>,
     Line_long \o <<" ","y","\n">>}

\* longer texts over the lines that set, overwrite and close records
MixPool == {Line_region, Line_area, Line_datetime, Line_timeTBA, Line_regiondate}
MaxMixed == 4
MixedTexts == {JoinLines(ls) : ls \in SeqsUpTo(MixPool, MaxMixed)}

Texts == ShortTexts \cup MixedTexts \cup NoticeTexts \cup BreakTexts

\* two readings of the clock, as createdAt strings
Stamps == {<<"0","1","Z">>, <<"0","2","Z">>}

(***************************************************************************)
(* State.                                                                  *)
(***************************************************************************)
VARIABLES
    \* parse_pdf_for_outages: arguments, locals and position
    text, pdf_url, now_iso, lines, outages, region, area, start, end, i, ppc,
    \* merge_and_sort: argument, the dict, loop position, result and position
    m_items, dedup, m_i, m_out, mpc,
    \* the world of main: the page the source serves, whether BeautifulSoup is
    \* installed, what the PDF links serve, the --mirror argument, the clock
    site, bs4, web, mirror, clock,
    \* main: locals, the two files, position, exit status, and the calls made
    html, pdf_links, k, items, payload, outFile, mirrorFile, pc, ret, log,
    \* the trainer's main: the parquet input, the artifacts in the output
    \* directory, position, exit status, stages completed, stage that raised
    t_input, t_disk, t_pc, t_exit, t_done, t_raised,
    \* the legacy scraper's fetch(): scraped items, its dedupe loop, position
    l_items, seen, deduped, l_i, lpc,
    \* and before the loop: the texts of the page's elements, the element the
    \* scrape is at, the clock
    l_page, l_j, l_clock

parseVars == <<text, pdf_url, now_iso, lines, outages, region, area, start, end, i, ppc>>
mergeVars == <<m_items, dedup, m_i, m_out, mpc>>
envVars == <<site, bs4, web, mirror>>
mainVars == <<envVars, clock, html, pdf_links, k, items, payload, outFile,
              mirrorFile, pc, ret, log>>
trainVars == <<t_input, t_disk, t_pc, t_exit, t_done, t_raised>>
legacyVars == <<l_items, seen, deduped, l_i, lpc, l_page, l_j, l_clock>>
sideVars == <<trainVars, legacyVars>>
vars == <<parseVars, mergeVars, mainVars, sideVars>>

NoFile == [exists |-> FALSE, data |-> <<>>]

\* parse_pdf_for_outages is not running
IdleParse ==
    /\ text = <<>> /\ pdf_url = <<>> /\ now_iso = <<>> /\ lines = <<>>
    /\ outages = <<>> /\ region = <<>> /\ area = <<>> /\ start = <<>>
    /\ end = <<>> /\ i = 0 /\ ppc = "idle"

\* main is not running
IdleMain ==
    /\ site = EmptyPage /\ bs4 = FALSE /\ web = <<>> /\ mirror = <<>> /\ clock = 0
    /\ html = EmptyPage /\ pdf_links = <<>> /\ k = 0 /\ items = <<>>
    /\ payload = <<>> /\ outFile = NoFile /\ mirrorFile = NoFile
    /\ pc = "idle" /\ ret = "none" /\ log = <<>>

\* the trainer is not running
IdleTrain ==
    /\ t_input = "none" /\ t_disk = <<>> /\ t_pc = "idle" /\ t_exit = "none"
    /\ t_done = <<>> /\ t_raised = "none"

\* the legacy scraper is not running
IdleLegacy ==
    /\ l_items = <<>> /\ seen = {} /\ deduped = <<>> /\ l_i = 0 /\ lpc = "idle"
    /\ l_page = <<>> /\ l_j = 0 /\ l_clock = 0

IdleSide == IdleTrain /\ IdleLegacy

\* merge_and_sort is not running
IdleMerge ==
    /\ m_items = <<>> /\ dedup = <<>> /\ m_i = 0 /\ m_out = <<>> /\ mpc = "idle"

\* the locals of the scan as one value
Scan == [outages |-> outages, region |-> region, area |-> area,
         start |-> start, end |-> end]

\* parse_pdf_for_outages entered: lines 146-158 have run
InitParse ==
    /\ \/ text \in Texts /\ pdf_url = <<"u","1">>
       \/ text \in NoticeTexts \cup BreakTexts /\ pdf_url = <<"u","2">>
    /\ now_iso = <<"0","1","Z">>
    /\ lines = NormLines(text)
    /\ outages = <<>>
    /\ region = <<>>
    /\ area = <<>>
    /\ start = <<>>
    /\ end = <<>>
    /\ i = 1
    /\ ppc = "scan"
    /\ IdleMerge
    /\ IdleMain
    /\ IdleSide

\* one iteration of "for ln in lines"
ScanLine ==
    /\ ppc = "scan"
    /\ i <= Len(lines)
    /\ LET ps == scan_line(Scan, lines[i], pdf_url, now_iso) IN
        /\ outages' = ps.outages
        /\ region' = ps.region
        /\ area' = ps.area
        /\ start' = ps.start
        /\ end' = ps.end
    /\ i' = i + 1
    /\ UNCHANGED <<text, pdf_url, now_iso, lines, ppc>>
    /\ UNCHANGED <<mergeVars, mainVars, sideVars>>

\* the loop is over: the last flush(), the fallback entry, return outages
Return ==
    /\ ppc = "scan"
    /\ i > Len(lines)
    /\ outages' = finish(Scan, lines, pdf_url, now_iso)
    /\ LET ps == flush(Scan, pdf_url, now_iso) IN
        /\ region' = ps.region
        /\ area' = ps.area
        /\ start' = ps.start
        /\ end' = ps.end
    /\ ppc' = "done"
    /\ UNCHANGED <<text, pdf_url, now_iso, lines, i>>
    /\ UNCHANGED <<mergeVars, mainVars, sideVars>>

NextParse == ScanLine \/ Return

SpecParse == InitParse /\ [][NextParse]_vars

(***************************************************************************)
(* merge_and_sort as a process: the loop over items, then the sort.        *)
(***************************************************************************)
MergeIds == {hash_id(<<"a">>), hash_id(<<"b">>), hash_id(<<"c">>)}
MergeRegions == {<<"N">>, <<"S">>}

\* the records merge_and_sort is given: ids, timestamps and contents vary
MergeRecords ==
    {[id |-> d, region |-> r, area |-> <<>>, startTime |-> <<>>,
      endTime |-> <<>>, sourceUrl |-> <<"u","1">>, createdAt |-> c] :
        d \in MergeIds, r \in MergeRegions, c \in Stamps}

MaxItems == 3

InitMerge ==
    /\ m_items \in SeqsUpTo(MergeRecords, MaxItems)
    /\ dedup = <<>>
    /\ m_i = 1
    /\ m_out = <<>>
    /\ mpc = "loop"
    /\ IdleParse
    /\ IdleMain
    /\ IdleSide

\* one iteration of "for it in items"
DedupStep ==
    /\ mpc = "loop"
    /\ m_i <= Len(m_items)
    /\ dedup' = DictPut(dedup, m_items[m_i])
    /\ m_i' = m_i + 1
    /\ UNCHANGED <<m_items, m_out, mpc>>
    /\ UNCHANGED <<parseVars, mainVars, sideVars>>

\* return sorted(dedup.values(), ...)
SortReturn ==
    /\ mpc = "loop"
    /\ m_i > Len(m_items)
    /\ m_out' = sorted_desc(dedup)
    /\ mpc' = "done"
    /\ UNCHANGED <<m_items, dedup, m_i>>
    /\ UNCHANGED <<parseVars, mainVars, sideVars>>

NextMerge == DedupStep \/ SortReturn

SpecMerge == InitMerge /\ [][NextMerge]_vars

(***************************************************************************)
(* main: one run of the fetcher.                                           *)
(***************************************************************************)

\* pages the source may serve
PageQuiet == [malformed |-> FALSE, hrefs |-> <<>>, texts |-> <<<<"W","e","l","c","o","m","e">>>>]
PageText ==
    [malformed |-> FALSE,
     hrefs |-> <<<<"x",".","h","t","m","l">>>>,
     texts |-> <<<<"P","l","a","n","n","e","d"," "," ","O","u","t","a","g","e"," ","i","n"," ","K","a","r","e","n">>,
                 <<"O","u","t","a","g","e">>,
                 <<"P","o","w","e","r"," ","M","a","i","n","t","e","n","a","n","c","e"," ","N","o","t","i","c","e",":"," ","R","u","i","r","u">>,
                 <<"P","l","a","n","n","e","d"," "," ","O","u","t","a","g","e"," ","i","n"," ","K","a","r","e","n">>>>]
PageLinks ==
    [malformed |-> FALSE,
     hrefs |-> <<<<" ","/","A",".","p","d","f">>, <<"b",".","P","D","F">>, <<"x",".","h","t","m","l">>, <<"/","A",".","p","d","f">>>>,
     texts |-> <<<<"P","o","w","e","r"," ","M","a","i","n","t","e","n","a","n","c","e"," ","N","o","t","i","c","e",":"," ","R","u","i","r","u">>>>]
\* one PDF link more than are fetched
PageManyLinks ==
    [malformed |-> FALSE,
     hrefs |-> [n \in 1..(PdfCap + 1) |-> <<"/", UpperSeq[n], ".", "p", "d", "f">>],
     texts |-> <<>>]
\* markup that the HTML parser rejects, for example "<![foo bar]>"
PageBroken ==
    [malformed |-> TRUE,
     hrefs |-> <<<<"/","A",".","p","d","f">>>>,
     texts |-> <<<<"P","o","w","e","r"," ","m","a","i","n","t","e","n","a","n","c","e"," "," ","n","o","t","i","c","e"," ","t","o","d","a","y">>>>]

Pages == {EmptyPage, PageQuiet, PageText, PageLinks, PageManyLinks, PageBroken}

\* what fetch_pdf_text(url) does: raise, or return the extracted text
PdfError == [err |-> TRUE, text |-> <<>>]
PdfOutcomes ==
    {PdfError,
     [err |-> FALSE, text |-> <<>>],
     [err |-> FALSE, text |-> JoinLines(<<Line_region, Line_area>>)],
     [err |-> FALSE, text |-> Line_plain]}

\* the PDF documents are of two kinds, by the letter that names the file
DocKind(u) ==
    (CHOOSE n \in 1..26 : LowerSeq[n] = ToLower(u[Len(u) - 4])) % 2
Worlds == [{0, 1} -> PdfOutcomes]
fetch_pdf_text(u) == web[DocKind(u)]

MirrorPath == <<"m",".","j","s","o","n">>

\* utcnow(), read as a timestamp of the same width at every tick
DigitSeq == <<"0","1","2","3","4","5","6","7","8","9">>
now_iso_at(n) == <<"0", DigitSeq[n + 1], "Z">>
MaxTicks == 1
\* the clock readings possible now
Ticks == {n \in {clock, clock + 1} : n <= MaxTicks}

Call(op, arg, ok, n) == [op |-> op, arg |-> arg, ok |-> ok, n |-> n]

Init ==
    /\ site \in Pages
    /\ bs4 \in BOOLEAN
    /\ web \in Worlds
    /\ mirror \in {<<>>, MirrorPath}
    /\ clock = 0
    /\ html = EmptyPage
    /\ pdf_links = <<>>
    /\ k = 0
    /\ items = <<>>
    /\ payload = <<>>
    /\ outFile = NoFile
    /\ mirrorFile = NoFile
    /\ pc = "fetch"
    /\ ret = "none"
    /\ log = <<>>
    /\ IdleParse
    /\ IdleMerge
    /\ IdleSide

\* html = ""; try: html = http_get(args.source); except: warn
FetchSource ==
    /\ pc = "fetch"
    /\ \E up \in BOOLEAN :
        /\ html' = IF up THEN site ELSE EmptyPage
        /\ log' = Append(log, Call("http_get", DEFAULT_SOURCE_URL, up, 0))
    /\ pc' = "extract"
    /\ UNCHANGED <<envVars, clock, pdf_links, k, items, payload, outFile,
                   mirrorFile, ret>>
    /\ UNCHANGED <<parseVars, mergeVars, sideVars>>

\* BeautifulSoup(html, "html.parser") raises for markup the parser rejects
SoupRaises == bs4 /\ html.malformed

\* pdf_links = extract_pdf_links_bs4(html, args.source): the call stands in
\* no try block, so what it raises leaves main
ExtractLinks ==
    /\ pc = "extract"
    /\ IF SoupRaises
       THEN /\ pc' = "done"
            /\ ret' = "exception"
            /\ log' = Append(log, Call("extract_pdf_links_bs4", <<>>, FALSE, 0))
            /\ UNCHANGED <<pdf_links, k>>
       ELSE LET links == extract_pdf_links_bs4(html, DEFAULT_SOURCE_URL, bs4) IN
            /\ pdf_links' = links
            /\ k' = 1
            /\ pc' = IF links # <<>> THEN "pdf" ELSE "list"
            /\ log' = Append(log, Call("extract_pdf_links_bs4", <<>>, TRUE, Len(links)))
            /\ ret' = ret
    /\ UNCHANGED <<envVars, clock, html, items, payload, outFile, mirrorFile>>
    /\ UNCHANGED <<parseVars, mergeVars, sideVars>>

\* mutant of PdfStep: a PDF that fails ends the loop over the links
PdfStep_abort ==
    /\ pc = "pdf"
    /\ k <= Len(pdf_batch(pdf_links))
    /\ LET pdf == pdf_batch(pdf_links)[k]
           got == fetch_pdf_text(pdf)
       IN  IF got.err \/ got.text = <<>>
           THEN /\ log' = Append(log, Call("fetch_pdf_text", pdf, ~got.err, 0))
                /\ k' = Len(pdf_batch(pdf_links)) + 1
                /\ UNCHANGED <<items, clock>>
           ELSE \E t \in Ticks :
                LET recs == parse_pdf_for_outages(got.text, pdf, now_iso_at(t)) IN
                /\ items' = items \o recs
                /\ clock' = t
                /\ k' = k + 1
                /\ log' = Append(log, Call("fetch_pdf_text", pdf, TRUE, Len(recs)))
    /\ UNCHANGED <<envVars, html, pdf_links, payload, outFile, mirrorFile, pc, ret>>
    /\ UNCHANGED <<parseVars, mergeVars, sideVars>>

\* one iteration of "for pdf in pdf_links[:15]"
PdfStep ==
    /\ pc = "pdf"
    /\ k <= Len(pdf_batch(pdf_links))
    /\ LET pdf == pdf_batch(pdf_links)[k]
           got == fetch_pdf_text(pdf)
       IN  IF got.err \/ got.text = <<>>
           THEN /\ log' = Append(log, Call("fetch_pdf_text", pdf, ~got.err, 0))
                /\ UNCHANGED <<items, clock>>
           ELSE \E t \in Ticks :
                LET recs == parse_pdf_for_outages(got.text, pdf, now_iso_at(t)) IN
                /\ items' = items \o recs
                /\ clock' = t
                /\ log' = Append(log, Call("fetch_pdf_text", pdf, TRUE, Len(recs)))
    /\ k' = k + 1
    /\ UNCHANGED <<envVars, html, pdf_links, payload, outFile, mirrorFile, pc, ret>>
    /\ UNCHANGED <<parseVars, mergeVars, sideVars>>

\* the loop over the PDF links is over
PdfDone ==
    /\ pc = "pdf"
    /\ k > Len(pdf_batch(pdf_links))
    /\ pc' = "merge"
    /\ UNCHANGED <<envVars, clock, html, pdf_links, k, items, payload, outFile,
                   mirrorFile, ret, log>>
    /\ UNCHANGED <<parseVars, mergeVars, sideVars>>

\* try: items = parse_list_section_bs4(html); except: warn
\* (runs only in the else branch of "if pdf_links")
ListScan ==
    /\ pc = "list"
    /\ \/ /\ ~SoupRaises
          /\ \E t \in Ticks :
              LET recs == parse_list_section_bs4(html, bs4, now_iso_at(t)) IN
              /\ items' = recs
              /\ clock' = IF bs4 THEN t ELSE clock
              /\ log' = Append(log, Call("parse_list_section_bs4", <<>>, TRUE, Len(recs)))
       \/ /\ bs4
          /\ log' = Append(log, Call("parse_list_section_bs4", <<>>, FALSE, 0))
          /\ UNCHANGED <<items, clock>>
    /\ pc' = IF items' = <<>> THEN "regex" ELSE "merge"
    /\ UNCHANGED <<envVars, html, pdf_links, k, payload, outFile, mirrorFile, ret>>
    /\ UNCHANGED <<parseVars, mergeVars, sideVars>>

\* if not items: try: items = parse_with_regex(html); except: warn
RegexScan ==
    /\ pc = "regex"
    /\ \/ \E t \in Ticks :
              LET recs == parse_with_regex(html, now_iso_at(t)) IN
              /\ items' = recs
              /\ clock' = t
              /\ log' = Append(log, Call("parse_with_regex", <<>>, TRUE, Len(recs)))
       \/ /\ log' = Append(log, Call("parse_with_regex", <<>>, FALSE, 0))
          /\ UNCHANGED <<items, clock>>
    /\ pc' = "merge"
    /\ UNCHANGED <<envVars, html, pdf_links, k, payload, outFile, mirrorFile, ret>>
    /\ UNCHANGED <<parseVars, mergeVars, sideVars>>

\* items = merge_and_sort(items); payload = json.dumps(items, ...)
MergeDump ==
    /\ pc = "merge"
    /\ items' = merge_and_sort(items)
    /\ payload' = json_dumps(items')
    /\ pc' = "write"
    /\ UNCHANGED <<envVars, clock, html, pdf_links, k, outFile, mirrorFile, ret, log>>
    /\ UNCHANGED <<parseVars, mergeVars, sideVars>>

\* what a guarded write leaves in a file: "ok" wrote the data; "no_open"
\* failed in ensure_parent_dir or open; "no_write" failed after open(path, "w")
\* had emptied the file
WriteOutcomes == {"ok", "no_open", "no_write"}
Written(file, data, how) ==
    CASE how = "ok" -> [exists |-> TRUE, data |-> data]
      [] how = "no_open" -> file
      [] how = "no_write" -> [exists |-> TRUE, data |-> <<>>]

\* mutant of WriteOutput: a failed write of the output skips the mirror
WriteOutput_stops ==
    /\ pc = "write"
    /\ \E how \in WriteOutcomes :
        /\ outFile' = Written(outFile, payload, how)
        /\ log' = Append(log, Call("write_output", <<>>, how = "ok", 0))
        /\ IF mirror # <<>> /\ how = "ok"
           THEN pc' = "mirror" /\ ret' = ret
           ELSE pc' = "done" /\ ret' = "0"
    /\ UNCHANGED <<envVars, clock, html, pdf_links, k, items, payload, mirrorFile>>
    /\ UNCHANGED <<parseVars, mergeVars, sideVars>>

\* try: write payload to args.output; except: report.  Without --mirror
\* this is the last statement before "return 0"
WriteOutput ==
    /\ pc = "write"
    /\ \E how \in WriteOutcomes :
        /\ outFile' = Written(outFile, payload, how)
        /\ log' = Append(log, Call("write_output", <<>>, how = "ok", 0))
    /\ IF mirror # <<>>
       THEN pc' = "mirror" /\ ret' = ret
       ELSE pc' = "done" /\ ret' = "0"
    /\ UNCHANGED <<envVars, clock, html, pdf_links, k, items, payload, mirrorFile>>
    /\ UNCHANGED <<parseVars, mergeVars, sideVars>>

\* if args.mirror: try: write payload to args.mirror; except: warn.  return 0
WriteMirror ==
    /\ pc = "mirror"
    /\ \E how \in WriteOutcomes :
        /\ mirrorFile' = Written(mirrorFile, payload, how)
        /\ log' = Append(log, Call("write_mirror", <<>>, how = "ok", 0))
    /\ pc' = "done"
    /\ ret' = "0"
    /\ UNCHANGED <<envVars, clock, html, pdf_links, k, items, payload, outFile>>
    /\ UNCHANGED <<parseVars, mergeVars, sideVars>>

Next ==
    \/ FetchSource
    \/ ExtractLinks
    \/ PdfStep
    \/ PdfDone
    \/ ListScan
    \/ RegexScan
    \/ MergeDump
    \/ WriteOutput
    \/ WriteMirror

Spec == Init /\ [][Next]_vars

(***************************************************************************)
(* The legacy scraper's fetch()                                            *)
(* (src/services/kplc/scraper/fetch_kplc_planned_outages.py).              *)
(***************************************************************************)

SOURCE_URL == <<"h","t","t","p",":","/","/","k","/","c","#","p">>

\* stable_id = normalize(title)[:120]
IdCap == 120

\* "Power Maintenance Notice" in title
HasNotice(title) ==
    LET lit == <<"P","o","w","e","r"," ","M","a","i","n","t","e","n","a","n","c","e"," ","N","o","t","i","c","e">> IN
    \E p \in 1..Len(title) :
        p + Len(lit) - 1 <= Len(title) /\ SubSeq(title, p, p + Len(lit) - 1) = lit

\* "SPECIAL POWER SUPPLY INTERRUPTION" in title.upper()
HasSpecial(title) ==
    Contains(title, <<"s","p","e","c","i","a","l"," ","p","o","w","e","r"," ","s","u","p","p","l","y"," ","i","n","t","e","r","r","u","p","t","i","o","n">>)

\* the record appended for one element.  Its region, area, startTime and
\* endTime are computed from the title alone and are kept here as the title
\* they are computed from
LegacyRecord(title, now) ==
    [id        |-> Truncate(normalize_space(title), IdCap),
     title     |-> title,
     sourceUrl |-> SOURCE_URL,
     createdAt |-> now]

\* texts of article and div elements
Elem_blank == <<" ">>
Elem_other == <<"C","o","n","t","a","c","t"," "," ","u","s">>
Elem_notice == <<"P","o","w","e","r"," ","M","a","i","n","t","e","n","a","n","c","e"," "," ","N","o","t","i","c","e"," ","-"," ","N","a","i","r","o","b","i">>
Elem_special == <<"S","p","e","c","i","a","l"," ","p","o","w","e","r"," ","s","u","p","p","l","y"," ","i","n","t","e","r","r","u","p","t","i","o","n",":"," ","T","h","i","k","a">>
\* two notices that agree on their first 120 characters
Elem_longA == <<"P","o","w","e","r"," ","M","a","i","n","t","e","n","a","n","c","e"," ","N","o","t","i","c","e"," ">> \o Repeat("x", IdCap) \o <<" ","A","r","e","a",":"," ","K","a","r","e","n">>
Elem_longB == <<"P","o","w","e","r"," ","M","a","i","n","t","e","n","a","n","c","e"," ","N","o","t","i","c","e"," ">> \o Repeat("x", IdCap) \o <<" ","A","r","e","a",":"," ","R","u","i","r","u">>
Elems == {Elem_blank, Elem_other, Elem_notice, Elem_special, Elem_longA, Elem_longB}

MaxElems == 3

InitLegacy ==
    /\ l_page \in SeqsUpTo(Elems, MaxElems)
    /\ l_j = 0
    /\ l_clock = 0
    /\ l_items = <<>>
    /\ seen = {}
    /\ deduped = <<>>
    /\ l_i = 0
    /\ lpc = "get"
    /\ IdleParse
    /\ IdleMerge
    /\ IdleMain
    /\ IdleTrain

\* resp = requests.get(...); resp.raise_for_status(); soup = BeautifulSoup(...)
\* None of it is guarded: what it raises leaves fetch()
GetPage ==
    /\ lpc = "get"
    /\ \E up \in BOOLEAN :
        /\ lpc' = IF up THEN "scrape" ELSE "raised"
        /\ l_j' = IF up THEN 1 ELSE l_j
    /\ UNCHANGED <<l_items, seen, deduped, l_i, l_page, l_clock>>
    /\ UNCHANGED <<parseVars, mergeVars, mainVars, trainVars>>

\* one iteration of "for article in soup.find_all(['article', 'div'])"
ScrapeElement ==
    /\ lpc = "scrape"
    /\ l_j <= Len(l_page)
    /\ LET title == normalize_space(l_page[l_j]) IN
       IF title # <<>> /\ (HasNotice(title) \/ HasSpecial(title))
       THEN \E t \in {n \in {l_clock, l_clock + 1} : n <= MaxTicks} :
              /\ l_items' = Append(l_items, LegacyRecord(title, now_iso_at(t)))
              /\ l_clock' = t
       ELSE UNCHANGED <<l_items, l_clock>>
    /\ l_j' = l_j + 1
    /\ UNCHANGED <<seen, deduped, l_i, lpc, l_page>>
    /\ UNCHANGED <<parseVars, mergeVars, mainVars, trainVars>>

\* seen = set(); deduped = []
ScrapeDone ==
    /\ lpc = "scrape"
    /\ l_j > Len(l_page)
    /\ seen' = {}
    /\ deduped' = <<>>
    /\ l_i' = 1
    /\ lpc' = "dedupe"
    /\ UNCHANGED <<l_items, l_page, l_j, l_clock>>
    /\ UNCHANGED <<parseVars, mergeVars, mainVars, trainVars>>

\* one iteration of "for it in items": skip an id already seen
DedupeItem ==
    /\ lpc = "dedupe"
    /\ l_i <= Len(l_items)
    /\ IF l_items[l_i].id \in seen
       THEN UNCHANGED <<seen, deduped>>
       ELSE /\ seen' = seen \cup {l_items[l_i].id}
            /\ deduped' = Append(deduped, l_items[l_i])
    /\ l_i' = l_i + 1
    /\ UNCHANGED <<l_items, lpc, l_page, l_j, l_clock>>
    /\ UNCHANGED <<parseVars, mergeVars, mainVars, trainVars>>

\* return deduped
ReturnDeduped ==
    /\ lpc = "dedupe"
    /\ l_i > Len(l_items)
    /\ lpc' = "done"
    /\ UNCHANGED <<l_items, seen, deduped, l_i, l_page, l_j, l_clock>>
    /\ UNCHANGED <<parseVars, mergeVars, mainVars, trainVars>>

NextLegacy ==
    \/ GetPage
    \/ ScrapeElement
    \/ ScrapeDone
    \/ DedupeItem
    \/ ReturnDeduped

SpecLegacy == InitLegacy /\ [][NextLegacy]_vars

(***************************************************************************)
(* The trainer's main (services/prediction/train_from_parquet.py): load,   *)
(* train and save inside one try block.                                    *)
(***************************************************************************)

\* what save_model_and_artifacts writes into the output directory
ModelDir == "outage_prediction_model"
ParamsFile == "preprocessing_params.json"
MetadataFile == "model_metadata.json"
Artifacts == {ModelDir, ParamsFile, MetadataFile}

\* the parquet file given as --input: absent, lacking a column the loader
\* reads, holding too few rows of a class for the stratified split, or sound
Inputs == {"missing", "no_column", "few_rows", "sound"}

\* an artifact is absent, left by an earlier run ("old"), written by this run
\* ("new"), or left half-written by a step of this run that raised
Disks == [Artifacts -> {"absent", "old"}]

Stages == <<"load", "train", "save">>

\* mutant of main_guard: the exception is swallowed and main carries on
main_guard_swallow(at, after, raised) ==
    [pc |-> after, exit |-> IF after = "exit" THEN "0" ELSE "none"]

\* try: <stages> except Exception: print(...); sys.exit(1).  A statement of
\* the try block that raises ends the block; the one after the last is the
\* end of main, which exits 0
main_guard(at, after, raised) ==
    IF raised THEN [pc |-> "exit", exit |-> "1"]
    ELSE [pc |-> after, exit |-> IF after = "exit" THEN "0" ELSE "none"]

InitTrain ==
    /\ t_input \in Inputs
    /\ t_disk \in Disks
    /\ t_pc = "load"
    /\ t_exit = "none"
    /\ t_done = <<>>
    /\ t_raised = "none"
    /\ IdleParse
    /\ IdleMerge
    /\ IdleMain
    /\ IdleLegacy

\* X_weather, X_temporal, y = load_and_preprocess_data(args.input)
LoadData ==
    /\ t_pc = "load"
    /\ LET raised == t_input \in {"missing", "no_column"}
           g == main_guard("load", "train", raised)
       IN  /\ t_pc' = g.pc
           /\ t_exit' = g.exit
           /\ t_raised' = IF raised THEN "load" ELSE t_raised
           /\ t_done' = IF raised THEN t_done ELSE Append(t_done, "load")
    /\ UNCHANGED <<t_input, t_disk>>
    /\ UNCHANGED <<parseVars, mergeVars, mainVars, legacyVars>>

\* model, weather_scaler, temporal_scaler, metrics = train_model(...)
TrainModel ==
    /\ t_pc = "train"
    /\ \E raised \in BOOLEAN :
        /\ t_input = "few_rows" => raised
        /\ LET g == main_guard("train", "save_model", raised) IN
            /\ t_pc' = g.pc
            /\ t_exit' = g.exit
        /\ t_raised' = IF raised THEN "train" ELSE t_raised
        /\ t_done' = IF raised THEN t_done ELSE Append(t_done, "train")
    /\ UNCHANGED <<t_input, t_disk>>
    /\ UNCHANGED <<parseVars, mergeVars, mainVars, legacyVars>>

\* one write of save_model_and_artifacts: it succeeds, or raises leaving the
\* artifact as it was or half-written
SaveStep(at, after, a) ==
    /\ t_pc = at
    /\ \E how \in {"ok", "untouched", "partial"} :
        LET raised == how # "ok"
            g == main_guard(at, after, raised)
        IN  /\ t_disk' = [t_disk EXCEPT ![a] = CASE how = "ok" -> "new"
                                                  [] how = "untouched" -> @
                                                  [] how = "partial" -> "partial"]
            /\ t_pc' = g.pc
            /\ t_exit' = g.exit
            /\ t_raised' = IF raised THEN "save" ELSE t_raised
            /\ t_done' = IF ~raised /\ after = "report"
                          THEN Append(t_done, "save") ELSE t_done
    /\ UNCHANGED t_input
    /\ UNCHANGED <<parseVars, mergeVars, mainVars, legacyVars>>

\* os.makedirs(output_dir); tfjs.converters.save_keras_model(model, model_dir)
SaveKerasModel == SaveStep("save_model", "save_params", ModelDir)

\* json.dump(preprocessing_params, f) into preprocessing_params.json
SavePreprocessingParams == SaveStep("save_params", "save_metadata", ParamsFile)

\* json.dump(metadata, f) into model_metadata.json, and the closing prints
SaveModelMetadata == SaveStep("save_metadata", "report", MetadataFile)

\* print("Training completed successfully!"), the last statement of the try
\* block (a print to a closed pipe raises)
ReportSuccess ==
    /\ t_pc = "report"
    /\ \E raised \in BOOLEAN :
        /\ LET g == main_guard("report", "exit", raised) IN
            /\ t_pc' = g.pc
            /\ t_exit' = g.exit
        /\ t_raised' = IF raised THEN "report" ELSE t_raised
    /\ UNCHANGED <<t_input, t_disk, t_done>>
    /\ UNCHANGED <<parseVars, mergeVars, mainVars, legacyVars>>

NextTrain ==
    \/ LoadData
    \/ TrainModel
    \/ SaveKerasModel
    \/ SavePreprocessingParams
    \/ SaveModelMetadata
    \/ ReportSuccess

SpecTrain == InitTrain /\ [][NextTrain]_vars

(***************************************************************************)
(* Properties of parse_pdf_for_outages, checked under SpecParse.           *)
(***************************************************************************)

\* the scan is about to process line i
AtLine == ppc = "scan" /\ i <= Len(lines)

\* the marker whose branch of the loop body a line takes: the patterns are
\* tried in the order region, area, date, time and the first match decides
MarkerOf(ln) ==
    IF region_re_search(ln).ok THEN "region"
    ELSE IF area_re_search(ln).ok THEN "area"
    ELSE IF date_re_search(ln).ok THEN "date"
    ELSE IF time_re_search(ln).ok THEN "time"
    ELSE "none"

SomeFieldSet == region # <<>> \/ area # <<>> \/ start # <<>> \/ end # <<>>

\* the record that closing the in-progress record emits
InProgress ==
    [id        |-> hash_id(pdf_url \o <<"|">> \o region \o <<"|">> \o area
                           \o <<"|">> \o start \o <<"|">> \o end),
     region    |-> region,
     area      |-> area,
     startTime |-> start,
     endTime   |-> end,
     sourceUrl |-> pdf_url,
     createdAt |-> now_iso]

\* C1: scanning the normalized lines in order, a line taken as a region marker
\* closes the in-progress record (appending it when it has a non-empty field)
\* and starts a new one whose only set field is the matched region text; a
\* line taken as an area, date or time marker sets the field of that marker
\* in the in-progress record, leaves the other three alone and emits nothing.
C1_RegionClosesOthersPopulate ==
    [][AtLine =>
        LET ln == lines[i]
            m  == MarkerOf(ln)
        IN  /\ m = "region" =>
                /\ outages' = IF SomeFieldSet THEN Append(outages, InProgress)
                                              ELSE outages
                /\ region' = strip(region_re_search(ln).g)
                /\ area' = <<>> /\ start' = <<>> /\ end' = <<>>
            /\ m = "area" =>
                /\ outages' = outages
                /\ area' = strip(area_re_search(ln).g)
                /\ UNCHANGED <<region, start, end>>
            /\ m = "date" =>
                /\ outages' = outages
                /\ start' = strip(date_re_search(ln).g)
                /\ UNCHANGED <<region, area, end>>
            /\ m = "time" =>
                /\ outages' = outages
                /\ end' = strip(time_re_search(ln).g)
                /\ UNCHANGED <<region, area, start>>
    ]_vars

\* a region line has just closed a record that held an area, and a new record
\* with only its region is in progress
C1_Witness ==
    /\ ppc = "scan"
    /\ i > 2
    /\ MarkerOf(lines[i - 1]) = "region"
    /\ MarkerOf(lines[i - 2]) = "area"
    /\ Len(outages) >= 1
    /\ outages[Len(outages)].area # <<>>
    /\ region # <<>>
    /\ area = <<>>

\* C2: every record in the result list has a non-empty region, area, startTime
\* or endTime, and a flush() with all four fields empty appends nothing: at a
\* region line the list is unchanged, and at the end of the scan the list is
\* unchanged by flush() (only the fallback entry, whose id is the hash of the
\* PDF URL, can then be added to an empty list).
C2_FlushRule ==
    /\ [](\A n \in 1..Len(outages) :
             \/ outages[n].region # <<>>
             \/ outages[n].area # <<>>
             \/ outages[n].startTime # <<>>
             \/ outages[n].endTime # <<>>)
    /\ [][(ppc = "scan" /\ ~SomeFieldSet) =>
            \/ outages' = outages
            \/ /\ i > Len(lines)
               /\ outages = <<>>
               /\ Len(outages') = 1
               /\ outages'[1].id = hash_id(pdf_url)
       ]_vars

\* a region line met with all four fields empty after an earlier line: the
\* flush() it ran appended nothing
C2_Witness ==
    /\ ppc = "scan"
    /\ i > 2
    /\ MarkerOf(lines[i - 1]) = "region"
    /\ MarkerOf(lines[i - 2]) = "time"
    /\ outages = <<>>
    /\ region # <<>>

NoMarkerLine == \A n \in 1..Len(lines) : MarkerOf(lines[n]) = "none"

\* C3: when no line of the text matches a region, area, date or time marker,
\* the result for a non-empty text is exactly one record, with region the
\* first normalized line cut to 120 characters, area "Planned maintenance",
\* empty startTime and endTime and id the hash of the PDF URL; the result for
\* the empty text is the empty list.
C3_FallbackOnly ==
    (ppc = "done" /\ NoMarkerLine) =>
        IF text = <<>> THEN outages = <<>>
        ELSE LET first == normalize_space(splitlines(text)[1]) IN
             /\ Len(outages) = 1
             /\ outages[1].id = hash_id(pdf_url)
             /\ outages[1].region =
                    (IF Len(first) <= 120 THEN first ELSE SubSeq(first, 1, 120))
             /\ outages[1].area = PlannedMaintenance
             /\ outages[1].startTime = <<>>
             /\ outages[1].endTime = <<>>

\* a text without markers whose first line is longer than 120 characters has
\* been parsed into the one fallback record
C3_Witness ==
    /\ ppc = "done"
    /\ NoMarkerLine
    /\ Len(lines) >= 1
    /\ Len(lines[1]) > 120
    /\ Len(outages) = 1
    /\ Len(outages[1].region) = 120

\* the marker each line is taken as
LineMarkers == [n \in 1..Len(lines) |-> MarkerOf(lines[n])]

\* the positions of the lines taken as region markers, in order
RegionIdx(marks) == SelectSeq(Positions(lines), LAMBDA n : marks[n] = "region")

\* the lines of the j-th region block: after its region line, before the next
BlockLines(ridx, j) ==
    {n \in 1..Len(lines) :
        /\ n > ridx[j]
        /\ j < Len(ridx) => n < ridx[j + 1]}

\* the first marker line is a region marker, and every region marker is
\* followed in its block by an area, a date and a time marker line
WellFormed(marks, ridx) ==
    /\ ridx # <<>>
    /\ \A n \in 1..(ridx[1] - 1) : marks[n] = "none"
    /\ \A j \in 1..Len(ridx) :
         \A m \in {"area", "date", "time"} :
            \E n \in BlockLines(ridx, j) : marks[n] = m

\* C4: for a text whose first marker line is a region marker and in which each
\* region marker is followed by area, date and time marker lines, the result
\* has exactly one record per region marker, in order of appearance, each
\* with the region of its marker and an area, startTime and endTime captured
\* from an area, date and time marker line of its own block.
C4_OneRecordPerBlock ==
    ppc = "done" =>
        LET marks == LineMarkers
            ridx  == RegionIdx(marks)
        IN  WellFormed(marks, ridx) =>
            /\ Len(outages) = Len(ridx)
            /\ \A j \in 1..Len(ridx) :
                /\ outages[j].region = strip(region_re_search(lines[ridx[j]]).g)
                /\ \E n \in BlockLines(ridx, j) :
                    /\ marks[n] = "area"
                    /\ outages[j].area = strip(area_re_search(lines[n]).g)
                /\ \E n \in BlockLines(ridx, j) :
                    /\ marks[n] = "date"
                    /\ outages[j].startTime = strip(date_re_search(lines[n]).g)
                /\ \E n \in BlockLines(ridx, j) :
                    /\ marks[n] = "time"
                    /\ outages[j].endTime = strip(time_re_search(lines[n]).g)

\* a notice of two complete blocks with different regions has been parsed
C4_Witness ==
    /\ ppc = "done"
    /\ Len(outages) = 2
    /\ outages[1].region # outages[2].region
    /\ outages[2].endTime # <<>>
    /\ LET marks == LineMarkers
           ridx  == RegionIdx(marks)
       IN  WellFormed(marks, ridx) /\ Len(ridx) = 2

\* the working fields that a step changes
ChangedFields ==
    {f \in {"region", "area", "start", "end"} :
        \/ f = "region" /\ region' # region
        \/ f = "area" /\ area' # area
        \/ f = "start" /\ start' # start
        \/ f = "end" /\ end' # end}

\* the working field that the marker m populates
FieldOf(m) ==
    CASE m = "region" -> "region"
      [] m = "area" -> "area"
      [] m = "date" -> "start"
      [] m = "time" -> "end"

\* C5 as stated: the scan is one forward pass and every line changes at most
\* one of the four fields.
C5_AtMostOneFieldChanges ==
    [][AtLine => /\ i' = i + 1
                 /\ lines' = lines
                 /\ Cardinality(ChangedFields) <= 1]_vars

\* C5, amended: the scan is one forward pass; each non-empty line is tested
\* against the patterns in the order region, area, date, time and only the
\* first that matches is applied.  A line not taken as a region marker
\* changes at most one field, the one of its highest-priority marker, also
\* when it matches several markers; a line taken as a region marker sets
\* region and, through flush(), leaves area, start and end empty.
C5_FirstMatchOnly ==
    [][AtLine =>
        LET m == MarkerOf(lines[i]) IN
        /\ i' = i + 1
        /\ lines' = lines
        /\ m = "none" => ChangedFields = {}
        /\ m \in {"area", "date", "time"} => ChangedFields \subseteq {FieldOf(m)}
        /\ m = "region" =>
            /\ region' = strip(region_re_search(lines[i]).g)
            /\ area' = <<>> /\ start' = <<>> /\ end' = <<>>
    ]_vars

\* a line matching both the date and the time marker has been processed: the
\* date is stored and the time range is not
C5_Witness ==
    /\ ppc = "scan"
    /\ i > 1
    /\ date_re_search(lines[i - 1]).ok
    /\ time_re_search(lines[i - 1]).ok
    /\ MarkerOf(lines[i - 1]) = "date"
    /\ start # <<>>
    /\ end = <<>>

(***************************************************************************)
(* Properties of merge_and_sort, checked under SpecMerge.                  *)
(***************************************************************************)

\* the positions of the id d in the input list
Occurrences(d) == {n \in 1..Len(m_items) : m_items[n].id = d}
FirstOcc(d) == Min(Occurrences(d))
LastOcc(d) == Max(Occurrences(d))

\* C6: the output of merge_and_sort holds each id of the input exactly once
\* (no id twice, no id lost, none invented), and the record kept for an id is
\* the last record with that id in the input list.
C6_LastOccurrenceWins ==
    mpc = "done" =>
        /\ {m_out[n].id : n \in 1..Len(m_out)} = {m_items[n].id : n \in 1..Len(m_items)}
        /\ \A a, b \in 1..Len(m_out) : a # b => m_out[a].id # m_out[b].id
        /\ \A n \in 1..Len(m_out) : m_out[n] = m_items[LastOcc(m_out[n].id)]

\* an id came twice with different records, and the merge has finished
C6_Witness ==
    /\ mpc = "done"
    /\ \E a, b \in 1..Len(m_items) :
        /\ a < b
        /\ m_items[a].id = m_items[b].id
        /\ m_items[a] # m_items[b]
    /\ Len(m_out) = 2

\* C7: the output of merge_and_sort is ordered by non-increasing createdAt
\* under string comparison, and the order is stable: records of equal
\* createdAt stand in the order in which their ids first occurred in the input.
C7_StableDescending ==
    mpc = "done" =>
        \A a, b \in 1..Len(m_out) :
            a < b =>
                /\ ~StrLess(m_out[a].createdAt, m_out[b].createdAt)
                /\ m_out[a].createdAt = m_out[b].createdAt =>
                       FirstOcc(m_out[a].id) < FirstOcc(m_out[b].id)

\* three ids were given; the sort moved a record of later createdAt in front
\* of an earlier-given one, and the two records of equal createdAt behind it
\* kept the order in which they were given
C7_Witness ==
    /\ mpc = "done"
    /\ Len(m_out) = 3
    /\ StrLess(m_out[3].createdAt, m_out[1].createdAt)
    /\ m_out[2].createdAt = m_out[3].createdAt
    /\ FirstOcc(m_out[2].id) < FirstOcc(m_out[1].id)
    /\ FirstOcc(m_out[2].id) < FirstOcc(m_out[3].id)

(***************************************************************************)
(* Properties of main, checked under Spec.                                 *)
(***************************************************************************)

\* the calls of op made so far, in order
CallsOf(op) == SelectSeq(log, LAMBDA c : c.op = op)
Ran(op) == CallsOf(op) # <<>>

\* the strategies are over: main is merging, writing, or has returned
PastStrategies == pc \in {"merge", "write", "mirror"} \/ (pc = "done" /\ ret = "0")

\* C8: the strategies run in the order PDF links, page text, raw regex.  With
\* at least one PDF link only the PDF strategy runs, over the first 15 links
\* at most, in page order; the page-text scan runs only when no PDF link was
\* found; the regex scan runs only when no PDF link was found and the
\* page-text scan, run before it, produced no records.
C8_StrategyOrder ==
    LET pdfs  == CallsOf("fetch_pdf_text")
        lists == CallsOf("parse_list_section_bs4")
        regs  == CallsOf("parse_with_regex")
    IN  /\ Len(pdfs) <= 15
        /\ Len(pdfs) <= Len(pdf_links)
        /\ \A n \in 1..Len(pdfs) : pdfs[n].arg = pdf_links[n]
        /\ pdf_links # <<>> => lists = <<>> /\ regs = <<>>
        /\ lists # <<>> => pdf_links = <<>> /\ Len(lists) = 1
        /\ regs # <<>> =>
            /\ pdf_links = <<>>
            /\ Len(regs) = 1
            /\ lists # <<>>
            /\ lists[1].n = 0
            /\ \E a, b \in 1..Len(log) :
                /\ a < b
                /\ log[a].op = "parse_list_section_bs4"
                /\ log[b].op = "parse_with_regex"
        /\ PastStrategies =>
            IF pdf_links # <<>>
            THEN Len(pdfs) = (IF Len(pdf_links) < 15 THEN Len(pdf_links) ELSE 15)
            ELSE /\ lists # <<>>
                 /\ regs # <<>> <=> lists[1].n = 0

\* a page with more than 15 PDF links: main has returned after fetching the
\* first 15 of them and nothing else
C8_Witness ==
    /\ pc = "done"
    /\ ret = "0"
    /\ Len(pdf_links) > 15
    /\ Len(CallsOf("fetch_pdf_text")) = 15
    /\ items # <<>>

\* C9: whichever steps fail, main propagates no exception: it ends with a
\* serialized list of records and returns 0.
C9_NeverRaises ==
    pc = "done" =>
        /\ ret = "0"
        /\ Len(payload) >= 2
        /\ payload[1].t = "["
        /\ payload[Len(payload)].t = "]"

\* the HTTP fetch of the source URL failed
SourceFailed == log # <<>> /\ log[1].op = "http_get" /\ ~log[1].ok

\* the JSON text "[]"
EmptyArray == <<[t |-> "["], [t |-> "]"]>>

\* C10: when the HTTP fetch of the source URL fails, main goes on with an
\* empty page: no PDF link is found and no PDF fetched, the page-text and
\* regex scans yield no records, the payload is the empty JSON array [],
\* which is what a successful write leaves at the output path, and main
\* returns 0.
C10_UnreachableSource ==
    SourceFailed =>
        /\ html = EmptyPage
        /\ pdf_links = <<>>
        /\ items = <<>>
        /\ ~Ran("fetch_pdf_text")
        /\ \A n \in 1..Len(log) :
              log[n].op \in {"parse_list_section_bs4", "parse_with_regex"} =>
                  log[n].n = 0
        /\ pc \in {"write", "mirror", "done"} => payload = EmptyArray
        /\ \A n \in 1..Len(log) :
              (log[n].op = "write_output" /\ log[n].ok) =>
                  outFile = [exists |-> TRUE, data |-> EmptyArray]
        /\ pc = "done" => ret = "0" /\ Ran("write_output")

\* the source serves a page with PDF links and notices, but the fetch failed:
\* both scans ran on the empty page, and [] was written
C10_Witness ==
    /\ pc = "done"
    /\ SourceFailed
    /\ site = PageLinks
    /\ Ran("parse_list_section_bs4")
    /\ Ran("parse_with_regex")
    /\ outFile = [exists |-> TRUE, data |-> EmptyArray]
    /\ ret = "0"

\* C11: on every run of main, by the time it returns, the serialized record
\* list has been written to the output path: main never returns 0 with the
\* output file missing or holding anything but the payload.
C11_OutputAlwaysWritten ==
    (pc = "done" /\ ret = "0") => outFile = [exists |-> TRUE, data |-> payload]

\* a record with its createdAt blanked: what it holds apart from the clock
Unstamped(r) == [r EXCEPT !.createdAt = <<>>]
UnstampedAll(rs) == [n \in 1..Len(rs) |-> Unstamped(rs[n])]

\* the records of the first n links of the batch, failed PDFs giving none
RECURSIVE BatchRecords(_, _)
BatchRecords(batch, n) ==
    IF n = 0 THEN <<>>
    ELSE LET got == fetch_pdf_text(batch[n]) IN
         BatchRecords(batch, n - 1) \o
            (IF got.err \/ got.text = <<>> THEN <<>>
             ELSE UnstampedAll(parse_pdf_for_outages(got.text, batch[n], <<>>)))

\* the PDF loop is at link number k of the batch
AtPdf == pc = "pdf" /\ k <= Len(pdf_batch(pdf_links))
PdfFailed(u) == fetch_pdf_text(u).err \/ fetch_pdf_text(u).text = <<>>

\* C12: in the PDF strategy a PDF whose fetch raises or whose text is empty
\* is skipped alone: the loop goes on to the next link with the collected
\* records untouched, and the list passed to merge_and_sort holds, in link
\* order, the records of every PDF of the batch that did not fail, those
\* before a failed PDF and those after it.
C12_FailedPdfSkippedAlone ==
    /\ [][(AtPdf /\ PdfFailed(pdf_batch(pdf_links)[k])) =>
             (items' = items /\ k' = k + 1 /\ pc' = "pdf")]_vars
    /\ []((pc = "merge" /\ pdf_links # <<>>) =>
             /\ k = Len(pdf_batch(pdf_links)) + 1
             /\ UnstampedAll(items) =
                    BatchRecords(pdf_batch(pdf_links), Len(pdf_batch(pdf_links))))

\* the second PDF failed (one raising, one with no text would do the same)
\* and the list passed on holds the records of the first and of the third
C12_Witness ==
    /\ pc = "merge"
    /\ Len(pdf_links) >= 3
    /\ ~PdfFailed(pdf_links[1])
    /\ fetch_pdf_text(pdf_links[2]).err
    /\ ~PdfFailed(pdf_links[3])
    /\ \E n \in 1..Len(items) : items[n].sourceUrl = pdf_links[1]
    /\ \E n \in 1..Len(items) : items[n].sourceUrl = pdf_links[3]
    /\ \A n \in 1..Len(items) : items[n].sourceUrl # pdf_links[2]

\* the stages before stage number n, in order
StagesBefore(n) == SubSeq(Stages, 1, n - 1)
StageNo(st) == CHOOSE n \in 1..Len(Stages) : Stages[n] = st

\* C13: the trainer's main runs load, train and save in that order inside
\* one guard: a stage that raises skips the stages after it and the process
\* exits with status 1; the process exits with status 0 only after all three
\* stages have completed; and no artifact written by the run is removed or
\* rolled back when a later step fails.
C13_TrainerGuard ==
    /\ [](/\ \E n \in 0..Len(Stages) : t_done = SubSeq(Stages, 1, n)
          /\ t_raised \in {"load", "train", "save"} =>
                /\ t_exit = "1"
                /\ t_pc = "exit"
                /\ t_done = StagesBefore(StageNo(t_raised))
          /\ t_exit = "0" => (t_done = Stages /\ t_raised = "none")
          /\ t_exit = "1" => t_raised # "none")
    /\ [][/\ \A a \in DOMAIN t_disk : t_disk[a] = "new" => t_disk'[a] = "new"
          /\ t_pc = "exit" => UNCHANGED trainVars]_vars

\* the write of the metadata raised after the model and the parameters were
\* written: the process has exited with 1 and both artifacts are in place
C13_Witness ==
    /\ t_pc = "exit"
    /\ t_exit = "1"
    /\ t_raised = "save"
    /\ t_done = <<"load", "train">>
    /\ t_disk[ModelDir] = "new"
    /\ t_disk[ParamsFile] = "new"
    /\ t_disk[MetadataFile] = "partial"

(***************************************************************************)
(* Further properties of parse_pdf_for_outages, checked under SpecParse.   *)
(***************************************************************************)

AllDigits(s, a, b) == \A n \in a..b : s[n] \in Digit

\* YYYY-MM-DD
IsIsoDate(s) ==
    /\ Len(s) = 10
    /\ AllDigits(s, 1, 4) /\ s[5] = "-" /\ AllDigits(s, 6, 7)
    /\ s[8] = "-" /\ AllDigits(s, 9, 10)

\* hh:mm or hh:mm:ss, with or without a closing Z
IsIsoTime(s) ==
    LET t == IF s # <<>> /\ s[Len(s)] = "Z" THEN SubSeq(s, 1, Len(s) - 1) ELSE s IN
    /\ Len(t) \in {5, 8}
    /\ AllDigits(t, 1, 2) /\ t[3] = ":" /\ AllDigits(t, 4, 5)
    /\ Len(t) = 8 => (t[6] = ":" /\ AllDigits(t, 7, 8))

\* a date, a time, or a date and a time joined by T
IsIso8601(s) ==
    \/ IsIsoDate(s)
    \/ IsIsoTime(s)
    \/ /\ Len(s) > 11
       /\ IsIsoDate(SubSeq(s, 1, 10))
       /\ s[11] = "T"
       /\ IsIsoTime(SubSeq(s, 12, Len(s)))

\* C14: in every record produced by parse_pdf_for_outages, startTime and
\* endTime are each the empty string or an ISO-8601 formatted string.
C14_IsoOrEmpty ==
    \A n \in 1..Len(outages) :
        /\ outages[n].startTime = <<>> \/ IsIso8601(outages[n].startTime)
        /\ outages[n].endTime = <<>> \/ IsIso8601(outages[n].endTime)

\* the value a marker line gives to its field
FieldValue(ln, m) ==
    CASE m = "region" -> strip(region_re_search(ln).g)
      [] m = "area" -> strip(area_re_search(ln).g)
      [] m = "date" -> strip(date_re_search(ln).g)
      [] m = "time" -> strip(time_re_search(ln).g)
      [] OTHER -> <<>>

\* the lines before the first region line (all lines when there is none)
Prelude(ridx) == {n \in 1..Len(lines) : ridx # <<>> => n < ridx[1]}

\* the value of the last line of S taken as marker m, empty without one
LastValue(marks, S, m) ==
    LET at == {n \in S : marks[n] = m} IN
    IF at = {} THEN <<>>
    ELSE FieldValue(lines[CHOOSE n \in at : \A o \in at : o <= n], m)

\* the fields a block of lines S, opened with region r, leaves in its record
BlockRecord(marks, S, r) ==
    [region    |-> r,
     area      |-> LastValue(marks, S, "area"),
     startTime |-> LastValue(marks, S, "date"),
     endTime   |-> LastValue(marks, S, "time")]

Blank(b) == b.region = <<>> /\ b.area = <<>> /\ b.startTime = <<>> /\ b.endTime = <<>>

\* the records the text's blocks call for: the lines before the first region
\* line when they set a field, then one block per region line
BlockRecords(marks, ridx) ==
    LET pre == BlockRecord(marks, Prelude(ridx), <<>>) IN
    (IF Blank(pre) THEN <<>> ELSE <<pre>>) \o
    [j \in 1..Len(ridx) |->
        BlockRecord(marks, BlockLines(ridx, j), FieldValue(lines[ridx[j]], "region"))]

\* C16: whenever flush() emits a record the four working fields are reset to
\* empty (a region line then sets the region of the new block), so no value
\* leaks between blocks: each emitted record's area, startTime and endTime
\* are the values of the last area, date and time marker lines after its
\* block's start and before the next region marker, empty without such a line.
C16_NoLeakBetweenBlocks ==
    /\ [][(ppc = "scan" /\ SomeFieldSet /\ Len(outages') > Len(outages)) =>
            /\ area' = <<>> /\ start' = <<>> /\ end' = <<>>
            /\ IF i <= Len(lines)
               THEN region' = FieldValue(lines[i], "region")
               ELSE region' = <<>>]_vars
    /\ [](ppc = "done" =>
            LET marks == LineMarkers
                ridx == RegionIdx(marks)
                want == BlockRecords(marks, ridx)
            IN  want # <<>> =>
                  /\ Len(outages) = Len(want)
                  /\ \A n \in 1..Len(want) :
                        /\ outages[n].area = want[n].area
                        /\ outages[n].startTime = want[n].startTime
                        /\ outages[n].endTime = want[n].endTime)

\* a block with an area was followed by a block without one: the second
\* record's area is empty
C16_Witness ==
    /\ ppc = "done"
    /\ Len(outages) = 2
    /\ outages[1].region # <<>>
    /\ outages[1].area # <<>>
    /\ outages[1].startTime # <<>>
    /\ outages[2].region # <<>>
    /\ outages[2].area = <<>>
    /\ outages[2].startTime = <<>>

\* some line is taken as a marker
SomeMarkerLine(marks) == \E n \in 1..Len(lines) : marks[n] # "none"

\* C17 as stated: for a text with a marker line, the number of records is the
\* number of region lines, plus one if an area, date or time marker line
\* comes before the first region line (or there is no region line); the extra
\* record is first and has an empty region.
C17_CountByMarkerLines ==
    ppc = "done" =>
        LET marks == LineMarkers
            ridx == RegionIdx(marks)
            extra == \E n \in Prelude(ridx) : marks[n] \in {"area", "date", "time"}
        IN  SomeMarkerLine(marks) =>
              /\ Len(outages) = Len(ridx) + (IF extra THEN 1 ELSE 0)
              /\ extra => outages[1].region = <<>>

\* C17, amended: the lines before the first region line add the extra record
\* only when they leave a field non-empty: an area or date marker line is
\* among them, or the last time marker line among them captured more than
\* blanks (a time marker may capture only blanks, and then empties endTime).
\* The extra record is first and has an empty region; every region line
\* yields its own record, carrying its region, also when the next line is a
\* region line; and a text without region line whose lines leave every field
\* empty yields the single fallback record.
C17_CountBySetFields ==
    ppc = "done" =>
        LET marks == LineMarkers
            ridx == RegionIdx(marks)
            extra == \/ \E n \in Prelude(ridx) : marks[n] \in {"area", "date"}
                     \/ LastValue(marks, Prelude(ridx), "time") # <<>>
            e == IF extra THEN 1 ELSE 0
        IN  SomeMarkerLine(marks) =>
              IF ridx = <<>> /\ ~extra
              THEN /\ Len(outages) = 1
                   /\ outages[1].id = hash_id(pdf_url)
                   /\ outages[1].area = PlannedMaintenance
              ELSE /\ Len(outages) = Len(ridx) + e
                   /\ extra => outages[1].region = <<>>
                   /\ \A j \in 1..Len(ridx) :
                        outages[j + e].region = FieldValue(lines[ridx[j]], "region")

\* a blank time marker, then two region lines in a row: two records, one per
\* region line, and none for the lines before them
C17_Witness ==
    /\ ppc = "done"
    /\ Len(lines) >= 3
    /\ MarkerOf(lines[1]) = "time"
    /\ FieldValue(lines[1], "time") = <<>>
    /\ MarkerOf(lines[2]) = "region"
    /\ MarkerOf(lines[3]) = "region"
    /\ Len(outages) = 2
    /\ outages[1].region = FieldValue(lines[2], "region")
    /\ outages[1].area = <<>>

(***************************************************************************)
(* The legacy scraper's dedupe, checked under SpecLegacy.                  *)
(***************************************************************************)

\* the place of the last scraped item with identifier d
LastScraped(d) ==
    CHOOSE n \in 1..Len(l_items) :
        /\ l_items[n].id = d
        /\ \A m \in (n + 1)..Len(l_items) : l_items[m].id # d

\* C15: the legacy fetch() collapses records by id with the last occurrence
\* winning: its result holds each scraped id exactly once, and for an id
\* scraped several times the record returned is the last one scraped.
C15_LegacyLastWins ==
    lpc = "done" =>
        /\ \A n \in 1..Len(l_items) :
              Cardinality({m \in 1..Len(deduped) : deduped[m].id = l_items[n].id}) = 1
        /\ \A m \in 1..Len(deduped) :
              deduped[m] = l_items[LastScraped(deduped[m].id)]

(***************************************************************************)
(* The two writes of main, checked under Spec.                             *)
(***************************************************************************)

\* what a file holds after a successful write of the payload
Holds(file) == file = [exists |-> TRUE, data |-> payload]

\* C18: the output write and the mirror write are independent and use the
\* same payload.  With --mirror the mirror write is attempted whether or not
\* the output write succeeded; neither write touches the other's file or the
\* payload, so a failure of one neither prevents nor alters the other; both
\* files hold the same serialized list when both writes succeed; and without
\* --mirror no second file is written.
C18_IndependentWrites ==
    /\ [][/\ pc = "write" =>
               /\ mirrorFile' = mirrorFile
               /\ payload' = payload
               /\ pc' = IF mirror # <<>> THEN "mirror" ELSE "done"
               /\ \E how \in WriteOutcomes : outFile' = Written(outFile, payload, how)
          /\ pc = "mirror" =>
               /\ outFile' = outFile
               /\ payload' = payload
               /\ \E how \in WriteOutcomes : mirrorFile' = Written(mirrorFile, payload, how)
         ]_vars
    /\ [](/\ (pc = "done" /\ ret = "0") =>
               /\ Len(CallsOf("write_output")) = 1
               /\ Len(CallsOf("write_mirror")) = (IF mirror # <<>> THEN 1 ELSE 0)
          /\ mirror = <<>> => mirrorFile = NoFile
          /\ \A n \in 1..Len(log) :
               /\ (log[n].op = "write_output" /\ log[n].ok) => Holds(outFile)
               /\ (log[n].op = "write_mirror" /\ log[n].ok) =>
                     (Holds(mirrorFile) /\ mirrorFile.data = payload))

\* the write of the output failed, the mirror was written all the same and
\* holds the records
C18_Witness ==
    /\ pc = "done"
    /\ ret = "0"
    /\ mirror # <<>>
    /\ \E n \in 1..Len(log) : log[n].op = "write_output" /\ ~log[n].ok
    /\ ~outFile.exists
    /\ Holds(mirrorFile)
    /\ Len(payload) > 2

====
